---- MODULE Spec2Model ----
(***************************************************************************)
(* A model of shell.c: the read loop of main(), the interpretation of one  *)
(* command line (history recall, '&' stripping, strtok tokenization, the   *)
(* scan for the first of < > |) and the processes the loop forks (child,   *)
(* pipe-owning child, grandchild) with their wait/exec/exit steps.         *)
(*                                                                         *)
(* A character is a one-character string, a line or a token a sequence of  *)
(* characters, the NULL pointer the empty sequence (strtok never returns   *)
(* an empty token).  C indices are kept 0-based: At(a, k) is a[k].         *)
(***************************************************************************)
EXTENDS Integers, Sequences, FiniteSets, TLC

VARIABLES
    proc,       \* the process table: pid -> the process's position and locals
    stdin,      \* the lines consumed from standard input so far, with their reader
    pipeBuf,    \* the bytes buffered in the pipe each process created
    scanArgs,   \* SpecArgs: an argument vector handed to the dispatch code
    scanOut,    \* SpecArgs: what the dispatch code made of scanArgs
    cmdLine,    \* SpecLine: a command line handed to lines 112-151
    cmdOut,     \* SpecLine: the locals lines 112-151 made of cmdLine
    tok         \* SpecTok: strtok's progress through a command line

vars == <<proc, stdin, pipeBuf, scanArgs, scanOut, cmdLine, cmdOut, tok>>

\* The variables the read loop and its processes leave alone.
pure == <<scanArgs, scanOut, cmdLine, cmdOut, tok>>

(***************************** bounds ***************************************)
MaxReads == 2       \* lines read from standard input in one run
MaxProcs == 2       \* processes forked in one run (pids 1..MaxProcs)
MaxArgs  == 4       \* tokens of an argument vector in SpecArgs
MaxLineLen == 4     \* characters of a command line in SpecLine
PipeCap  == 1       \* bytes a pipe buffers

(************************** program constants *******************************)
MAX_LINE == 80

\* int argSize = MAX_LINE / 2 + 1; char *args[argSize];
argSize == MAX_LINE \div 2 + 1

NULL == <<>>
SP   == " "
AMP  == "&"
NL   == "\n"
LT   == <<"<">>
GT   == <<">">>
BAR  == <<"|">>

ExitCmd   == <<"e", "x", "i", "t">>
RecallCmd == <<"!", "!">>

INIT == -1          \* the parent of the shell and of every orphan
Pids == 0 .. MaxProcs

Min(a, b) == IF a < b THEN a ELSE b

At(a, k) == a[k + 1]
SetAt(a, k, v) == [a EXCEPT ![k + 1] = v]

(************************ the line, lines 75-125 ****************************)
\* fgets(theCommand, sizeof(theCommand), stdin): at most MAX_LINE - 1
\* characters of the typed line and its newline.
Fgets(typed) ==
    LET s == typed \o <<NL>>
    IN  SubSeq(s, 1, Min(Len(s), MAX_LINE - 1))

\* buf[strlen(buf) - 1] = '\0'
Chop(buf) == SubSeq(buf, 1, Len(buf) - 1)

\* theCommand[strlen(theCommand) - 1] == '&'
IsBackground(cmd) == At(cmd, Len(cmd) - 1) = AMP

\* Mutant: the '&' is detected and left in the line.
KeepBg(cmd) == cmd

\* if (bgProcess) theCommand[strlen(theCommand) - 1] = '\0';
StripBg(cmd) == IF IsBackground(cmd) THEN Chop(cmd) ELSE cmd

\* strtok(s, " "): skip the leading delimiters, the token runs to the next
\* delimiter (overwritten by '\0'), the next call resumes after it.
RECURSIVE SkipDelims(_, _)
SkipDelims(s, k) ==
    IF k <= Len(s) /\ s[k] = SP THEN SkipDelims(s, k + 1) ELSE k

RECURSIVE TokenEnd(_, _)
TokenEnd(s, k) ==
    IF k <= Len(s) /\ s[k] # SP THEN TokenEnd(s, k + 1) ELSE k

RECURSIVE Strtok(_, _)
Strtok(s, k) ==
    LET b == SkipDelims(s, k)
    IN  IF b > Len(s)
        THEN <<>>
        ELSE LET e == TokenEnd(s, b)
             IN  <<SubSeq(s, b, e - 1)>> \o Strtok(s, e + 1)

\* args[0 .. numArgs], args[numArgs] being the NULL strtok ended on.
Tokenize(cmd) == Strtok(cmd, 1) \o <<NULL>>

(********************** the scan, lines 127-151 *****************************)
RECURSIVE ScanFrom(_, _, _)
ScanFrom(args, numArgs, i) ==
    IF ~(i <= numArgs - 1)
    THEN [needPipe |-> 0, ioRedirect |-> 0, i |-> i]
    ELSE IF At(args, i) = LT  THEN [needPipe |-> 0, ioRedirect |-> 1, i |-> i]
    ELSE IF At(args, i) = GT  THEN [needPipe |-> 0, ioRedirect |-> 2, i |-> i]
    ELSE IF At(args, i) = BAR THEN [needPipe |-> 1, ioRedirect |-> 0, i |-> i]
    ELSE ScanFrom(args, numArgs, i + 1)

\* Mutant: the scan starts at the command name.
ScanFromZero(args, numArgs) == ScanFrom(args, numArgs, 0)

Scan(args, numArgs) == ScanFrom(args, numArgs, 1)

\* Lines 112-151: the locals the loop holds when it reaches fork().
Interpret(cmd) ==
    LET bg      == IF IsBackground(cmd) THEN 1 ELSE 0
        args    == Tokenize(StripBg(cmd))
        numArgs == Len(args) - 1
        sc      == Scan(args, numArgs)
    IN  [args |-> args, numArgs |-> numArgs, bgProcess |-> bg,
         needPipe |-> sc.needPipe, ioRedirect |-> sc.ioRedirect, i |-> sc.i]

(******************* the child's vectors, lines 179-270 *********************)
FirstCommand(args, i) ==
    [j \in 1 .. i |-> At(args, j - 1)] \o <<NULL>>

\* Mutant: the copy of the second command starts at the operator.
SecondCommandFromOperator(args, numArgs, i) ==
    [j \in 1 .. (numArgs - i - 1) |-> At(args, (j - 1) + i)] \o <<NULL>>

SecondCommand(args, numArgs, i) ==
    [j \in 1 .. (numArgs - i - 1) |-> At(args, (j - 1) + i + 1)] \o <<NULL>>

\* char *firstCommand[i + 1]; char *secondCommand[numArgs - i];
FirstSize(i) == i + 1
SecondSize(numArgs, i) == numArgs - i

\* The indices lines 183-187 write firstCommand at, and those lines
\* 189-193 write secondCommand at.
FirstWrites(i) == (0 .. i - 1) \cup {i}
SecondWrites(numArgs, i) == (0 .. numArgs - i - 2) \cup {numArgs - i - 1}

\* args[i] = NULL; args[i + 1] = NULL;
RedirectArgs(args, i) == SetAt(SetAt(args, i, NULL), i + 1, NULL)

\* What execvp hands the program: the vector up to its first NULL.
RECURSIVE UpToNull(_, _)
UpToNull(a, k) ==
    IF k > Len(a) \/ a[k] = NULL THEN <<>> ELSE <<a[k]>> \o UpToNull(a, k + 1)

ExecArgv(a) == UpToNull(a, 1)

(************* the indices of args, lines 120-151 and 240-265 **************)
\* strtok's progress through a command line, one character at a time:
\* len characters have been scanned, numArgs tokens have been found, the
\* last character scanned is inside a token or not, and `used` is the set
\* of the indices at which args has been read or written; `line` is the
\* characters scanned, kept while there are at most MaxLineLen of them.
TokStart ==
    [len |-> 0, numArgs |-> 0, inTok |-> FALSE, ended |-> FALSE, used |-> {},
     line |-> <<>>]

\* The characters scanned, with one more.
Scanned(t, ch) == IF t.len < MaxLineLen THEN Append(t.line, ch) ELSE <<>>

\* Mutant: every character that is not a delimiter is a token of its own.
StartsTokenEach(inTok, ch) == ch # SP

\* A character that is not a delimiter starts a token when the scan is not
\* inside one.
StartsToken(inTok, ch) == ~inTok /\ ch # SP

\* The indices the loop of line 134 reads args at when it ends with i.
ScanReads(numArgs, i) == { k \in 1 .. i : k <= numArgs - 1 }

\* The indices the child uses for an operator found at i: those of the
\* copies of lines 183-191, or those of lines 240-248 and 257-265.
ChildUses(numArgs, i, kind) ==
    CASE kind = "pipe"     -> (0 .. i - 1) \cup (i + 1 .. numArgs - 1)
      [] kind = "redirect" -> {i, i + 1}
      [] kind = "none"     -> {}

(************************* the input lines **********************************)
A == <<"a">>
B == <<"b">>
F == <<"f">>

RECURSIVE Unwords(_)
Unwords(ws) ==
    IF ws = <<>> THEN <<>>
    ELSE IF Len(ws) = 1 THEN ws[1]
    ELSE ws[1] \o <<SP>> \o Unwords(Tail(ws))

\* The commands typed at the prompt: plain, piped, redirected either way,
\* and an operator with nothing after it.
Commands == { <<A>>, <<A, BAR, B>>, <<A, LT, F>>, <<A, GT, F>>, <<A, LT>> }

\* The commands also typed with a trailing " &".
BgCommands == { <<A>>, <<A, BAR, B>> }

\* The typed lines: the commands, and the lines the loop treats itself:
\* the empty line, a line of one space, "!!" and "exit".
InputLines ==
    { Unwords(ws) : ws \in Commands }
        \cup { Unwords(ws) \o <<SP, AMP>> : ws \in BgCommands }
        \cup { <<>>, <<SP>>, RecallCmd, ExitCmd }

(************************* the process table ********************************)
SEGV == 139         \* the status of a process killed by SIGSEGV

\* enum { READ, WRITE };
READ  == 0
WRITE == 1

\* What a descriptor refers to: the terminal the shell was started on, an
\* end of the pipe that process c created, or the file that process c
\* opened; `end` is the direction the descriptor is used in.
Tty(e)        == [obj |-> "tty",  id |-> 0, end |-> e]
PipeEnd(c, e) == [obj |-> "pipe", id |-> c, end |-> e]
File(c, e)    == [obj |-> "file", id |-> c, end |-> e]

NoPipes == [c \in Pids |-> 0]

\* A pid not yet handed out by fork().  fd1 is the pipe whose ends the
\* array fd1 names (0: none), in0 and out1 are what descriptors 0 and 1
\* refer to, and fds what the other open descriptors refer to.
Fresh ==
    [st |-> "unused", parent |-> INIT, history |-> NULL,
     args |-> <<NULL>>, numArgs |-> 0, bgProcess |-> 0,
     needPipe |-> 0, ioRedirect |-> 0, i |-> 0,
     childPid |-> 0, fd2 |-> 0, status |-> 0, msg |-> "", prog |-> NULL,
     fd1 |-> 0, in0 |-> Tty(READ), out1 |-> Tty(WRITE), fds |-> {}]

\* The locals of the loop body as they are at the top of an iteration.
LoopTop(r) ==
    [r EXCEPT !.st = "prompt", !.args = <<NULL>>, !.numArgs = 0,
              !.bgProcess = 0, !.needPipe = 0, !.ioRedirect = 0, !.i = 0,
              !.childPid = 0]

Terminated(p) == proc[p].st \in {"zombie", "reaped"}
Running(p)    == proc[p].st \in {"running", "writing"}
Alive(p)      == proc[p].st \notin {"unused", "zombie", "reaped"}
Children(p)   == { c \in Pids : proc[c].st # "unused" /\ proc[c].parent = p }
Zombies(p)    == { c \in Children(p) : proc[c].st = "zombie" }
FreePids      == { c \in Pids : proc[c].st = "unused" }

\* The processes that have descriptor target x open.
Holders(x) ==
    { p \in Pids : /\ Alive(p)
                   /\ x \in proc[p].fds \cup {proc[p].in0, proc[p].out1} }
NextPid       == CHOOSE c \in FreePids : \A d \in FreePids : c <= d

\* What is left of a process once it has been waited for: its pid is not
\* handed out again, and its exit status and last message are on record.
Reaped(r) ==
    [Fresh EXCEPT !.st = "reaped", !.status = r.status, !.msg = r.msg]

\* The table after p ends with `status`, having last printed `msg`: p stays
\* a zombie until its parent waits for it; its children go to init, which
\* waits for every child of its own that ends.
Exit(p, status, msg) ==
    [q \in Pids |->
        IF q = p
        THEN LET r == [proc[p] EXCEPT !.st = "zombie", !.status = status,
                                      !.msg = msg]
             IN  IF proc[p].parent = INIT THEN Reaped(r) ELSE r
        ELSE IF proc[q].st \notin {"unused", "reaped"} /\ proc[q].parent = p
        THEN IF proc[q].st = "zombie"
             THEN Reaped(proc[q])
             ELSE [proc[q] EXCEPT !.parent = INIT]
        ELSE proc[q]]

\* The outcomes of execvp(a[0], a): it replaces the image, or returns -1;
\* with a NULL name it returns -1 or the process dies dereferencing it.
ExecOutcomes(a) ==
    IF At(a, 0) = NULL THEN {"fail", "crash"} ELSE {"ok", "fail"}

\* Mutant: exit(1) is missing after perror("Exec failed"), and the process
\* falls out of the branch to the top of the loop.
ExecFallsThrough(p, a, outcome) ==
    CASE outcome = "ok" ->
            [proc EXCEPT ![p] =
                [Fresh EXCEPT !.st = "running", !.parent = proc[p].parent,
                              !.fd2 = proc[p].fd2, !.prog = ExecArgv(a),
                              !.in0 = proc[p].in0, !.out1 = proc[p].out1,
                              !.fds = proc[p].fds]]
      [] outcome = "fail"  ->
            [proc EXCEPT ![p] = [LoopTop(proc[p]) EXCEPT !.msg = "Exec failed"]]
      [] outcome = "crash" -> Exit(p, SEGV, proc[p].msg)

\* if (execvp(a[0], a) == -1) { perror("Exec failed"); exit(1); }
\* The program keeps the descriptors the process had open.
Exec(p, a, outcome) ==
    CASE outcome = "ok" ->
            [proc EXCEPT ![p] =
                [Fresh EXCEPT !.st = "running", !.parent = proc[p].parent,
                              !.fd2 = proc[p].fd2, !.prog = ExecArgv(a),
                              !.in0 = proc[p].in0, !.out1 = proc[p].out1,
                              !.fds = proc[p].fds]]
      [] outcome = "fail"  -> Exit(p, 1, "Exec failed")
      [] outcome = "crash" -> Exit(p, SEGV, proc[p].msg)

\* The outcomes of open(name, ...): a descriptor, or -1; -1 for a NULL name.
OpenOutcomes(name) == IF name = NULL THEN {-1} ELSE {-1, 3}

InitProc ==
    [p \in Pids |->
        IF p = 0 THEN [Fresh EXCEPT !.st = "prompt"] ELSE Fresh]

(************************ the read loop, lines 66-163 ***********************)
\* Mutant: the parent waits whether or not the line ended in '&'.
ForkedAlwaysWaits(p, c, hist, d) ==
    LET me == [proc[p] EXCEPT
                 !.history = hist, !.args = d.args, !.numArgs = d.numArgs,
                 !.bgProcess = d.bgProcess, !.needPipe = d.needPipe,
                 !.ioRedirect = d.ioRedirect, !.i = d.i]
    IN  [proc EXCEPT
           ![c] = [me EXCEPT !.st = "child", !.parent = p, !.childPid = 0,
                             !.status = 0, !.msg = "", !.prog = NULL],
           ![p] = [me EXCEPT !.st = "wait", !.childPid = c]]

\* What fork() at line 155 makes of the table when it succeeds: the child c
\* is a copy of p that saw fork return 0; p saw it return c, and waits
\* unless the line ended in '&'.
Forked(p, c, hist, d) ==
    LET me == [proc[p] EXCEPT
                 !.history = hist, !.args = d.args, !.numArgs = d.numArgs,
                 !.bgProcess = d.bgProcess, !.needPipe = d.needPipe,
                 !.ioRedirect = d.ioRedirect, !.i = d.i]
    IN  [proc EXCEPT
           ![c] = [me EXCEPT !.st = "child", !.parent = p, !.childPid = 0,
                             !.status = 0, !.msg = "", !.prog = NULL],
           ![p] = IF d.bgProcess = 0
                  THEN [me EXCEPT !.st = "wait", !.childPid = c]
                  ELSE LoopTop(me)]

\* childPid < 0: perror("Fork failed"), and the loop goes on.
ForkFailed(p, hist) ==
    [proc EXCEPT ![p] = [LoopTop(proc[p]) EXCEPT !.history = hist,
                                                  !.msg = "Fork failed"]]

\* Mutant: the recalled command has lost its '&'.
CommandToRunStripped(theCommand, history) ==
    IF theCommand = RecallCmd THEN StripBg(history) ELSE theCommand

\* Mutant: the history is copied after the '&' has been removed.
NewHistoryStripped(theCommand, history) ==
    IF theCommand = RecallCmd THEN history ELSE StripBg(theCommand)

\* Mutant: "!!" is stored before the history is found empty.
NoHistoryStoresRecall(p) ==
    [proc EXCEPT ![p].msg = "No command in history.",
                 ![p].history = RecallCmd]

\* Lines 92-110: the command the iteration goes on with, "!!" being
\* replaced by a copy of the history; and the history it leaves.
CommandToRun(theCommand, history) ==
    IF theCommand = RecallCmd THEN history ELSE theCommand

NewHistory(theCommand, history) ==
    IF theCommand = RecallCmd THEN history ELSE theCommand

\* Lines 94-98: "!!" with nothing in the history.
NoHistory(p) == [proc EXCEPT ![p].msg = "No command in history."]

\* One iteration of the loop of process p on the typed line, up to the
\* point where p blocks (fgets again, or wait) or leaves the loop.
ReadLine(p, typed) ==
    /\ proc[p].st = "prompt"
    /\ Len(stdin) < MaxReads
    /\ stdin' = Append(stdin, [by |-> p, line |-> typed])
    /\ UNCHANGED <<pipeBuf, pure>>
    /\ LET theCommand == Chop(Fgets(typed))
       IN  IF theCommand = <<>>
           THEN UNCHANGED proc
           ELSE IF theCommand = ExitCmd
           THEN proc' = Exit(p, 0, proc[p].msg)
           ELSE IF theCommand = RecallCmd /\ proc[p].history = NULL
           THEN proc' = NoHistory(p)
           ELSE LET cmd  == CommandToRun(theCommand, proc[p].history)
                    hist == NewHistory(theCommand, proc[p].history)
                    d    == Interpret(cmd)
                IN  \/ /\ FreePids # {}
                       /\ proc' = Forked(p, NextPid, hist, d)
                    \/ proc' = ForkFailed(p, hist)

\* wait(&status) at line 161: it returns once any child of p has ended.
Wait(p) ==
    /\ proc[p].st = "wait"
    /\ \E z \in Zombies(p) :
          proc' = [proc EXCEPT ![z] = Reaped(proc[z]), ![p] = LoopTop(proc[p])]
    /\ UNCHANGED <<stdin, pipeBuf, pure>>

(********************* the child, lines 165-287 *****************************)
\* pipe(fd1), line 173, in process c: two more open descriptors.
Piped(r, c) ==
    [r EXCEPT !.fd1 = c,
              !.fds = @ \cup {PipeEnd(c, READ), PipeEnd(c, WRITE)}]

\* Mutant: the child leaves fd1[WRITE] open.
ChildFdsKeepWrite(r) ==
    [r EXCEPT !.in0 = PipeEnd(r.fd1, READ),
              !.fds = @ \ {PipeEnd(r.fd1, READ)}]

\* Lines 202-204: dup2(fd1[READ], STDIN_FILENO), and both ends closed.
ChildFds(r) ==
    [r EXCEPT !.in0 = PipeEnd(r.fd1, READ),
              !.fds = @ \ {PipeEnd(r.fd1, READ), PipeEnd(r.fd1, WRITE)}]

\* Lines 215-217: dup2(fd1[WRITE], STDOUT_FILENO), and both ends closed.
GrandChildFds(r) ==
    [r EXCEPT !.out1 = PipeEnd(r.fd1, WRITE),
              !.fds = @ \ {PipeEnd(r.fd1, READ), PipeEnd(r.fd1, WRITE)}]

\* Lines 240-249 and 257-266 in process c: the descriptor open returned,
\* and dup2 of it onto descriptor 0 or 1.
RedirectFds(r, c) ==
    IF r.ioRedirect = 1
    THEN [r EXCEPT !.fds = @ \cup {File(c, READ)}, !.in0 = File(c, READ)]
    ELSE [r EXCEPT !.fds = @ \cup {File(c, WRITE)}, !.out1 = File(c, WRITE)]

\* Lines 168-231: pipe(), the two vectors, fork().
PipeChild(c) ==
    /\ proc[c].st = "child"
    /\ proc[c].needPipe = 1
    /\ \/ proc' = Exit(c, 1, "Pipe failed")
       \/ proc' = [proc EXCEPT ![c] = [LoopTop(Piped(proc[c], c)) EXCEPT
                                         !.msg = "Child fork failed"]]
       \/ /\ FreePids # {}
          /\ LET g == NextPid
                 r == Piped(proc[c], c)
             IN  proc' = [proc EXCEPT
                    ![g] = [r EXCEPT !.st = "gchild", !.parent = c],
                    ![c] = [r EXCEPT !.st = "pwait", !.childPid = g]]
    /\ UNCHANGED <<stdin, pipeBuf, pure>>

\* Mutant: the child does not wait for the grandchild.
PipeNoWait(c) ==
    /\ proc[c].st = "pwait"
    /\ LET second == SecondCommand(proc[c].args, proc[c].numArgs, proc[c].i)
           r      == ChildFds(proc[c])
       IN  \E o \in ExecOutcomes(second) :
              proc' = [Exec(c, second, o) EXCEPT
                         ![c].in0 = r.in0, ![c].fds = r.fds]
    /\ UNCHANGED <<stdin, pipeBuf, pure>>

\* Lines 199-211: wait(&status2), dup2, close, execvp(secondCommand).
PipeWait(c) ==
    /\ proc[c].st = "pwait"
    /\ \E z \in Zombies(c) :
          LET second == SecondCommand(proc[c].args, proc[c].numArgs, proc[c].i)
              r      == ChildFds(proc[c])
          IN  \E o \in ExecOutcomes(second) :
                 proc' = [Exec(c, second, o) EXCEPT
                            ![c].in0 = r.in0, ![c].fds = r.fds,
                            ![z] = Reaped(proc[z])]
    /\ UNCHANGED <<stdin, pipeBuf, pure>>

\* Lines 213-225: dup2, close, execvp(firstCommand).
GrandChild(g) ==
    /\ proc[g].st = "gchild"
    /\ LET first == FirstCommand(proc[g].args, proc[g].i)
           r     == GrandChildFds(proc[g])
       IN  \E o \in ExecOutcomes(first) :
              proc' = [Exec(g, first, o) EXCEPT
                         ![g].out1 = r.out1, ![g].fds = r.fds]
    /\ UNCHANGED <<stdin, pipeBuf, pure>>

\* Mutant: the result of open is not looked at.
OpenFailedNameOnly(fd, name) == name = NULL

\* if (fd2 == -1 || args[i + 1] == NULL), lines 241 and 258
OpenFailed(fd, name) == fd = -1 \/ name = NULL

\* Lines 234-274: the redirection, if any, then execvp(args).
PlainChild(c) ==
    /\ proc[c].st = "child"
    /\ proc[c].needPipe = 0
    /\ LET r    == proc[c]
           name == At(r.args, r.i + 1)
       IN  IF r.ioRedirect = 0
           THEN \E o \in ExecOutcomes(r.args) : proc' = Exec(c, r.args, o)
           ELSE \E fd \in OpenOutcomes(name) :
                  IF OpenFailed(fd, name)
                  THEN proc' = [Exit(c, 1, IF r.ioRedirect = 1
                                           THEN "Input file failed"
                                           ELSE "Output file failed")
                                  EXCEPT ![c].fd2 = fd]
                  ELSE LET a == RedirectArgs(r.args, r.i)
                           n == RedirectFds(r, c)
                       IN  \E o \in ExecOutcomes(a) :
                              proc' = [Exec(c, a, o) EXCEPT
                                         ![c].fd2 = fd, ![c].in0 = n.in0,
                                         ![c].out1 = n.out1, ![c].fds = n.fds]
    /\ UNCHANGED <<stdin, pipeBuf, pure>>

\* A program started by execvp ends, with some status.
Finish(p) ==
    /\ proc[p].st = "running"
    /\ \E s \in {0, 1} : proc' = Exit(p, s, proc[p].msg)
    /\ UNCHANGED <<stdin, pipeBuf, pure>>

Init ==
    /\ proc = InitProc
    /\ stdin = <<>>
    /\ pipeBuf = NoPipes
    /\ scanArgs = <<NULL>>
    /\ scanOut = [done |-> FALSE]
    /\ cmdLine = <<>>
    /\ cmdOut = [done |-> FALSE]
    /\ tok = TokStart

Next ==
    \E p \in Pids :
        \/ \E typed \in InputLines : ReadLine(p, typed)
        \/ Wait(p)
        \/ PipeChild(p)
        \/ PipeWait(p)
        \/ GrandChild(p)
        \/ PlainChild(p)
        \/ Finish(p)

Spec == Init /\ [][Next]_vars

\* The scheduler runs every process that can take a step; nothing makes a
\* user type a line or a started program end.
Fairness ==
    \A p \in Pids :
        /\ WF_vars(Wait(p))
        /\ WF_vars(PipeChild(p))
        /\ WF_vars(PipeWait(p))
        /\ WF_vars(GrandChild(p))
        /\ WF_vars(PlainChild(p))

FairSpec == Spec /\ Fairness

(************ the bytes the programs move through a pipe *******************)
\* Spec leaves out what a started program does before it ends.  SpecIO
\* adds the use the two programs of a pipe line make of the descriptors
\* that lines 202 and 215 gave them.
\* A program whose standard output is a pipe calls write for one more
\* byte.
WriteCall(p) ==
    /\ proc[p].st = "running"
    /\ proc[p].out1.obj = "pipe"
    /\ proc' = [proc EXCEPT ![p].st = "writing"]
    /\ UNCHANGED <<stdin, pipeBuf, pure>>

\* The write returns once the pipe has room for the byte.
WriteDone(p) ==
    /\ proc[p].st = "writing"
    /\ pipeBuf[proc[p].out1.id] < PipeCap
    /\ pipeBuf' = [pipeBuf EXCEPT ![proc[p].out1.id] = @ + 1]
    /\ proc' = [proc EXCEPT ![p].st = "running"]
    /\ UNCHANGED <<stdin, pure>>

\* A program whose standard input is a pipe reads a byte from it.
ReadByte(p) ==
    /\ proc[p].st = "running"
    /\ proc[p].in0.obj = "pipe"
    /\ pipeBuf[proc[p].in0.id] > 0
    /\ pipeBuf' = [pipeBuf EXCEPT ![proc[p].in0.id] = @ - 1]
    /\ UNCHANGED <<proc, stdin, pure>>

NextIO ==
    \/ Next
    \/ \E p \in Pids :
          \/ WriteCall(p)
          \/ WriteDone(p)
          \/ ReadByte(p)

SpecIO == Init /\ [][NextIO]_vars

(********** the dispatch of one argument vector, lines 127-270 **************)
Words == {A, LT, GT, BAR}

ArgVectors == UNION { [1 .. n -> Words] : n \in 0 .. MaxArgs }

\* The vectors execvp is called with for `args`, in the order the programs
\* start, when every pipe, fork and open succeeds.
ExecCalls(args, numArgs, sc) ==
    IF sc.needPipe = 1
    THEN << ExecArgv(FirstCommand(args, sc.i)),
            ExecArgv(SecondCommand(args, numArgs, sc.i)) >>
    ELSE IF sc.ioRedirect # 0
    THEN IF At(args, sc.i + 1) = NULL
         THEN <<>>
         ELSE << ExecArgv(RedirectArgs(args, sc.i)) >>
    ELSE << ExecArgv(args) >>

\* Lines 179-193: the two vectors of a pipe line, with their declared
\* sizes and the indices they are written at.
Split(args, numArgs, i) ==
    [firstCommand  |-> FirstCommand(args, i),
     secondCommand |-> SecondCommand(args, numArgs, i),
     firstSize     |-> FirstSize(i),
     secondSize    |-> SecondSize(numArgs, i),
     firstWrites   |-> FirstWrites(i),
     secondWrites  |-> SecondWrites(numArgs, i)]

Dispatch ==
    /\ ~scanOut.done
    /\ LET numArgs == Len(scanArgs) - 1
           sc      == Scan(scanArgs, numArgs)
       IN  scanOut' = [done |-> TRUE, needPipe |-> sc.needPipe,
                       ioRedirect |-> sc.ioRedirect, i |-> sc.i,
                       execs |-> ExecCalls(scanArgs, numArgs, sc),
                       split |-> IF sc.needPipe = 1
                                 THEN Split(scanArgs, numArgs, sc.i)
                                 ELSE <<>>]
    /\ UNCHANGED <<proc, stdin, pipeBuf, scanArgs, cmdLine, cmdOut, tok>>

InitArgs ==
    /\ proc = InitProc
    /\ stdin = <<>>
    /\ pipeBuf = NoPipes
    /\ scanArgs \in { ws \o <<NULL>> : ws \in ArgVectors }
    /\ scanOut = [done |-> FALSE]
    /\ cmdLine = <<>>
    /\ cmdOut = [done |-> FALSE]
    /\ tok = TokStart

NextArgs == Dispatch

SpecArgs == InitArgs /\ [][NextArgs]_vars

(********** the interpretation of one command line, lines 112-151 ***********)
\* The characters of a command line: a letter, the delimiter, the
\* background marker and an operator.
Chars == {"a", SP, AMP, "|"}

\* The command lines that reach line 113: they are not empty.
CmdLines == UNION { [1 .. n -> Chars] : n \in 1 .. MaxLineLen }

InterpretLine ==
    /\ ~cmdOut.done
    /\ cmdOut' = [done |-> TRUE, d |-> Interpret(cmdLine)]
    /\ UNCHANGED <<proc, stdin, pipeBuf, scanArgs, scanOut, cmdLine, tok>>

InitLine ==
    /\ proc = InitProc
    /\ stdin = <<>>
    /\ pipeBuf = NoPipes
    /\ scanArgs = <<NULL>>
    /\ scanOut = [done |-> FALSE]
    /\ cmdLine \in CmdLines
    /\ cmdOut = [done |-> FALSE]
    /\ tok = TokStart

NextLine == InterpretLine

SpecLine == InitLine /\ [][NextLine]_vars

(************ the indices of args for a line of any length ******************)
\* The characters strtok tells apart: the delimiter and any other.
TokChars == {"a", SP}

\* The command line has one more character, ch: fgets stores at most
\* MAX_LINE - 1 of them.  A token that starts is stored at args[numArgs].
TokChar(ch) ==
    /\ ~tok.ended
    /\ tok.len < MAX_LINE - 1
    /\ tok' = IF StartsToken(tok.inTok, ch)
              THEN [tok EXCEPT !.len = @ + 1, !.inTok = TRUE,
                               !.used = @ \cup {tok.numArgs},
                               !.numArgs = @ + 1,
                               !.line = Scanned(tok, ch)]
              ELSE [tok EXCEPT !.len = @ + 1, !.inTok = (ch # SP),
                               !.line = Scanned(tok, ch)]
    /\ UNCHANGED <<proc, stdin, pipeBuf, scanArgs, scanOut, cmdLine, cmdOut>>

\* The command line, which is not empty, ends: strtok returns NULL, which
\* is stored at args[numArgs]; the scan stops at some i, on an operator or
\* at the end of its range; the child uses args around i.
TokEnd ==
    /\ ~tok.ended
    /\ tok.len >= 1
    /\ \E kind \in {"none", "redirect", "pipe"} :
       \E i \in 1 .. argSize :
          /\ IF kind = "none"
             THEN i = (IF tok.numArgs >= 1 THEN tok.numArgs ELSE 1)
             ELSE i <= tok.numArgs - 1
          /\ tok' = [tok EXCEPT
                       !.ended = TRUE,
                       !.used = @ \cup {tok.numArgs}
                                  \cup ScanReads(tok.numArgs, i)
                                  \cup ChildUses(tok.numArgs, i, kind)]
    /\ UNCHANGED <<proc, stdin, pipeBuf, scanArgs, scanOut, cmdLine, cmdOut>>

InitTok ==
    /\ proc = InitProc
    /\ stdin = <<>>
    /\ pipeBuf = NoPipes
    /\ scanArgs = <<NULL>>
    /\ scanOut = [done |-> FALSE]
    /\ cmdLine = <<>>
    /\ cmdOut = [done |-> FALSE]
    /\ tok = TokStart

NextTok ==
    \/ \E ch \in TokChars : TokChar(ch)
    \/ TokEnd

SpecTok == InitTok /\ [][NextTok]_vars

(****************************** properties **********************************)
\* The lines process p has read so far, oldest first.
RECURSIVE LinesReadBy(_, _)
LinesReadBy(p, log) ==
    IF log = <<>> THEN <<>>
    ELSE LET rest == LinesReadBy(p, SubSeq(log, 1, Len(log) - 1))
             e    == log[Len(log)]
         IN  IF e.by = p THEN Append(rest, e.line) ELSE rest

\* A line the loop stores: not empty, not "!!", not "exit".
Storable(line) == line \notin {<<>>, RecallCmd, ExitCmd}

\* The most recent storable line of `lines`, NULL when there is none.
RECURSIVE LastStored(_)
LastStored(lines) ==
    IF lines = <<>> THEN NULL
    ELSE IF Storable(lines[Len(lines)]) THEN lines[Len(lines)]
    ELSE LastStored(SubSeq(lines, 1, Len(lines) - 1))

\* This step is one read of standard input.
IsRead == Len(stdin') = Len(stdin) + 1
LastRead == stdin'[Len(stdin')]

\* C1: Foreground blocking: when the wait of a process that dispatched a
\* line without '&' completes, the child it forked for that line has
\* terminated (it is a zombie or has been reaped).
C1_ForegroundWaitsForItsChild ==
    [][\A p \in Pids :
          (proc[p].st = "wait" /\ proc'[p].st = "prompt")
              => proc'[proc[p].childPid].st \in {"zombie", "reaped"}]_vars

\* The read of this step makes its reader go on to fork(): the line is
\* neither empty nor "exit" nor a "!!" with nothing to recall.
ReadDispatches ==
    /\ IsRead
    /\ LastRead.line \notin {<<>>, ExitCmd}
    /\ ~(LastRead.line = RecallCmd /\ proc[LastRead.by].history = NULL)

\* This step creates a process.
IsFork == FreePids' # FreePids

\* C2: Process-creation failure abandons the line: when the top-level fork
\* fails the loop is back at its prompt and nothing else has changed; when
\* the fork of the grandchild fails in the pipe-owning child, that child
\* terminates and executes no program.
C2_ForkFailureAbandonsLine ==
    [][/\ (ReadDispatches /\ ~IsFork)
            => /\ proc'[LastRead.by].st = "prompt"
               /\ proc'[LastRead.by].msg = "Fork failed"
               /\ \A q \in Pids \ {LastRead.by} : proc'[q] = proc[q]
       /\ \A c \in Pids :
            (proc[c].st = "child" /\ proc'[c].msg = "Child fork failed")
                => /\ proc'[c].st \in {"zombie", "reaped"}
                   /\ proc'[c].prog = NULL]_vars

\* C3: Execution failure is contained: a process whose execvp failed has
\* terminated with status 1 without having executed a program, no other
\* process terminates in the step of the failure, and a loop waiting while
\* such a child of its own is a zombie gets back to its prompt.
C3_ExecFailureContained ==
    /\ [](\A c \in Pids :
            proc[c].msg = "Exec failed"
                => /\ proc[c].st \in {"zombie", "reaped"}
                   /\ proc[c].status = 1
                   /\ proc[c].prog = NULL)
    /\ [][\A c \in Pids :
            (proc[c].msg # "Exec failed" /\ proc'[c].msg = "Exec failed")
                => \A q \in Pids \ {c} :
                      proc'[q].st = "zombie" => proc[q].st = "zombie"]_vars
    /\ \A p \in Pids :
          (proc[p].st = "wait"
              /\ \E c \in Zombies(p) : proc[c].msg = "Exec failed")
            ~> (proc[p].st = "prompt")

\* Both stages of a pipeline failed to execute, and the loop is waiting.
C3_Witness ==
    /\ proc[0].st = "wait"
    /\ \E c \in Zombies(0) :
          /\ proc[c].msg = "Exec failed"
          /\ proc[c].needPipe = 1
          /\ \E g \in Pids \ {c} :
                proc[g].st = "reaped" /\ proc[g].msg = "Exec failed"

\* C4: History Slot invariant: the history of a process in the loop is,
\* verbatim, the most recent line it read that was neither empty, "!!" nor
\* "exit"; the shell's history is empty iff it has read no such line.
C4_HistorySlot ==
    \A p \in Pids :
        proc[p].st \in {"prompt", "wait"}
            => LET L == LastStored(LinesReadBy(p, stdin))
               IN  (p = 0 \/ L # NULL) => proc[p].history = L

\* "a &", then "!!": the slot still holds "a &", with its '&'.
C4_Witness ==
    /\ Len(stdin) = 2
    /\ stdin[1] = [by |-> 0, line |-> <<"a", SP, AMP>>]
    /\ stdin[2] = [by |-> 0, line |-> RecallCmd]
    /\ proc[0].st = "prompt"
    /\ proc[0].history = <<"a", SP, AMP>>
    /\ proc[2].st = "child"

\* The step hands fork() the locals that interpreting line L gives: the
\* fork fails, or the new child holds them and p waits iff L has no '&'.
DispatchedAs(p, L) ==
    LET d == Interpret(L)
    IN  IF ~IsFork
        THEN proc'[p].st = "prompt" /\ proc'[p].msg = "Fork failed"
        ELSE LET c == NextPid
             IN  /\ proc'[c].st = "child"
                 /\ proc'[c].parent = p
                 /\ proc'[c].args = d.args
                 /\ proc'[c].numArgs = d.numArgs
                 /\ proc'[c].bgProcess = d.bgProcess
                 /\ proc'[c].needPipe = d.needPipe
                 /\ proc'[c].ioRedirect = d.ioRedirect
                 /\ proc'[c].i = d.i
                 /\ proc'[p].st = IF d.bgProcess = 0 THEN "wait" ELSE "prompt"

\* C5: Recall re-executes verbatim: reading "!!" dispatches exactly what
\* interpreting L dispatches, L being the last storable line the reader
\* read; and reading L itself dispatches that.
C5_RecallVerbatim ==
    [][IsRead =>
          LET p == LastRead.by
              L == LastStored(LinesReadBy(p, stdin))
          IN  /\ Storable(LastRead.line) => DispatchedAs(p, LastRead.line)
              /\ (LastRead.line = RecallCmd /\ L # NULL)
                    => DispatchedAs(p, L)]_vars

\* "a &" then "!!": the second child is a background `a` too.
C5_Witness ==
    /\ Len(stdin) = 2
    /\ stdin[1] = [by |-> 0, line |-> <<"a", SP, AMP>>]
    /\ stdin[2] = [by |-> 0, line |-> RecallCmd]
    /\ proc[0].st = "prompt"
    /\ proc[2].st = "child" /\ proc[2].parent = 0
    /\ proc[2].bgProcess = 1
    /\ proc[2].args = <<A, NULL>>

\* A line of space characters only (the empty line among them).
AllSpaces(line) == \A k \in 1 .. Len(line) : line[k] = SP

\* C6: All-whitespace input is a no-op: reading a line made only of space
\* characters changes no process and creates none.
C6_BlankLineIsNoOp ==
    [][(IsRead /\ AllSpaces(LastRead.line)) => proc' = proc]_vars

\* C7: User input errors spawn nothing: on an empty line, and on "!!" with
\* an empty History Slot, no process is created, every history is as it
\* was, no other process changes and the reader is at its prompt.
C7_InputErrorsSpawnNothing ==
    [][(IsRead /\ (LastRead.line = <<>>
                    \/ (LastRead.line = RecallCmd
                          /\ proc[LastRead.by].history = NULL)))
          => /\ ~IsFork
             /\ \A q \in Pids :
                   /\ proc'[q].history = proc[q].history
                   /\ proc'[q].st = proc[q].st
                   /\ q # LastRead.by => proc'[q] = proc[q]
             /\ proc'[LastRead.by].st = "prompt"]_vars

\* An empty line, then "!!" with nothing to recall.
C7_Witness ==
    /\ Len(stdin) = 2
    /\ stdin[1] = [by |-> 0, line |-> <<>>]
    /\ stdin[2] = [by |-> 0, line |-> RecallCmd]
    /\ proc[0].st = "prompt"
    /\ proc[0].history = NULL
    /\ proc[0].msg = "No command in history."
    /\ FreePids = Pids \ {0}

\* The indices >= 1 of scanArgs that hold an operator token.
OperatorIndices ==
    { k \in 1 .. Len(scanArgs) - 2 : At(scanArgs, k) \in {LT, GT, BAR} }

FirstOperator == CHOOSE k \in OperatorIndices : \A m \in OperatorIndices : k <= m

\* C8: First-match-wins classification: no redirect and no pipe iff no
\* token at an index >= 1 is an operator; otherwise the kind and the index
\* are those of the lowest such index; a pipe and a redirect are never
\* both set, and index 0 is never the operator.
C8_FirstMatchWins ==
    scanOut.done =>
        /\ scanOut.needPipe \in {0, 1}
        /\ scanOut.ioRedirect \in {0, 1, 2}
        /\ ~(scanOut.needPipe = 1 /\ scanOut.ioRedirect # 0)
        /\ (scanOut.needPipe = 0 /\ scanOut.ioRedirect = 0)
              <=> OperatorIndices = {}
        /\ OperatorIndices # {} =>
              /\ scanOut.i = FirstOperator
              /\ scanOut.i >= 1
              /\ At(scanArgs, scanOut.i) = LT  <=> scanOut.ioRedirect = 1
              /\ At(scanArgs, scanOut.i) = GT  <=> scanOut.ioRedirect = 2
              /\ At(scanArgs, scanOut.i) = BAR <=> scanOut.needPipe = 1

\* `| a > |`: the operator at index 0 is skipped, the `>` at index 2 wins
\* over the `|` after it.
C8_Witness ==
    /\ scanOut.done
    /\ scanArgs = <<BAR, A, GT, BAR, NULL>>
    /\ scanOut.ioRedirect = 2
    /\ scanOut.i = 2

\* s ends with t.
EndsWith(s, t) ==
    Len(t) <= Len(s) /\ SubSeq(s, Len(s) - Len(t) + 1, Len(s)) = t

\* C9: Later operator occurrences are ordinary arguments: with more than
\* one operator token at an index >= 1, the tokens after the first
\* operator's operand, the later operators among them, end the argument
\* list of a program that is executed.
C9_LaterOperatorsArePassed ==
    (scanOut.done /\ Cardinality(OperatorIndices) > 1
        /\ At(scanArgs, scanOut.i + 1) # NULL)
      => \E k \in 1 .. Len(scanOut.execs) :
            EndsWith(scanOut.execs[k],
                     SubSeq(scanArgs, scanOut.i + 3, Len(scanArgs) - 1))

\* C10: Redirect open failure: the step of a redirecting child reads
\* args[i + 1] at or before the NULL that ends the vector, and when the
\* name is that NULL or open returned -1 the child has terminated with
\* status 1, its file error reported, and has executed no program.
C10_RedirectOpenFailure ==
    [][\A c \in Pids :
          (proc[c].st = "child" /\ proc[c].needPipe = 0
              /\ proc[c].ioRedirect # 0 /\ proc'[c].st # "child")
            => /\ proc[c].i + 1 <= proc[c].numArgs
               /\ (At(proc[c].args, proc[c].i + 1) = NULL
                      \/ proc'[c].fd2 = -1)
                    => /\ proc'[c].st \in {"zombie", "reaped"}
                       /\ proc'[c].status = 1
                       /\ proc'[c].prog = NULL
                       /\ proc'[c].msg = IF proc[c].ioRedirect = 1
                                         THEN "Input file failed"
                                         ELSE "Output file failed"]_vars

\* `a <`: the child found no file name and ended with status 1.
C10_Witness ==
    \E c \in Pids :
        /\ proc[c].st = "zombie"
        /\ proc[c].ioRedirect = 1
        /\ At(proc[c].args, proc[c].i + 1) = NULL
        /\ proc[c].msg = "Input file failed"
        /\ proc[c].status = 1

\* The command the read of this step goes on with: the typed line, or the
\* history of the reader when the line is "!!".
CommandRead ==
    IF LastRead.line = RecallCmd THEN proc[LastRead.by].history
    ELSE LastRead.line

\* C11: Background execution never blocks the main loop: a process starts
\* waiting only in the step in which it read a line and forked a child for
\* it; after such a step it waits iff the command does not end in '&' (the
\* Background Flag, which the child holds a copy of, is 0), and with the
\* flag set it is at its next prompt in that very step, whatever the state
\* of the other processes.
C11_BackgroundNeverBlocks ==
    [][/\ \A p \in Pids :
            (proc[p].st # "wait" /\ proc'[p].st = "wait")
                => (IsRead /\ LastRead.by = p /\ IsFork)
       /\ (IsRead /\ IsFork)
            => LET p  == LastRead.by
                   c  == NextPid
                   bg == IsBackground(CommandRead)
               IN  /\ proc'[c].bgProcess = (IF bg THEN 1 ELSE 0)
                   /\ proc'[p].st = "wait" <=> ~bg
                   /\ bg => proc'[p].st = "prompt"
                   /\ \A q \in Pids \ {p, c} : proc'[q] = proc[q]]_vars

\* `a | b &` has been read: the shell is at its prompt while the child it
\* forked for the line has not taken a step yet.
C11_Witness ==
    /\ Len(stdin) = 1
    /\ stdin[1] = [by |-> 0, line |-> <<"a", SP, "|", SP, "b", SP, AMP>>]
    /\ proc[0].st = "prompt"
    /\ proc[1].st = "child"
    /\ proc[1].bgProcess = 1
    /\ proc[1].parent = 0

\* The number of '&' characters of a sequence of characters.
RECURSIVE CountAmp(_)
CountAmp(cs) ==
    IF cs = <<>> THEN 0
    ELSE (IF cs[1] = AMP THEN 1 ELSE 0) + CountAmp(Tail(cs))

\* The number of '&' characters in the tokens of an argument vector.
RECURSIVE CountAmpIn(_)
CountAmpIn(args) ==
    IF args = <<>> THEN 0 ELSE CountAmp(args[1]) + CountAmpIn(Tail(args))

\* The locals d that lines 112-151 gave for L and those they give for L
\* followed by t differ in the Background Flag only, which is 0 for L and
\* 1 for L followed by t; and the tokens of the latter hold the '&'
\* characters of L and no other.
SameButBackground(d, L, t) ==
    LET e == Interpret(L \o t)
    IN  /\ e.args = d.args
        /\ e.numArgs = d.numArgs
        /\ e.needPipe = d.needPipe
        /\ e.ioRedirect = d.ioRedirect
        /\ e.i = d.i
        /\ d.bgProcess = 0
        /\ e.bgProcess = 1
        /\ CountAmpIn(e.args) = CountAmp(L)

\* C12: Background marker stripping: for a command line L whose last
\* character is not '&', L followed by `&` and L followed by ` &` give the
\* Argument Vector and the Operator Classification that L gives, with the
\* Background Flag 1 instead of 0, and the appended '&' is in no token.
C12_BackgroundMarkerStripped ==
    (cmdOut.done /\ ~IsBackground(cmdLine))
        => /\ SameButBackground(cmdOut.d, cmdLine, <<AMP>>)
           /\ SameButBackground(cmdOut.d, cmdLine, <<SP, AMP>>)

\* `a |` has been interpreted as a pipe at index 1, and `a | &` gives the
\* same two tokens in the background.
C12_Witness ==
    /\ cmdOut.done
    /\ cmdLine = <<"a", SP, "|">>
    /\ cmdOut.d.needPipe = 1
    /\ cmdOut.d.i = 1
    /\ Interpret(cmdLine \o <<SP, AMP>>).args = <<A, BAR, NULL>>
    /\ Interpret(cmdLine \o <<SP, AMP>>).bgProcess = 1

\* The line `exit` is among the lines read so far.
ExitEntered == \E k \in 1 .. Len(stdin) : stdin[k].line = ExitCmd

\* C13: Exit contract: the process that read the line `exit` has
\* terminated with status 0, and once `exit` has been read no step reads a
\* line (so none dispatches one and spawns a process for it) and no step
\* brings a process to a prompt.
C13_ExitContract ==
    /\ [](\A k \in 1 .. Len(stdin) :
            stdin[k].line = ExitCmd
                => /\ Terminated(stdin[k].by)
                   /\ proc[stdin[k].by].status = 0)
    /\ [][ExitEntered
            => /\ ~IsRead
               /\ \A p \in Pids :
                     proc'[p].st = "prompt" => proc[p].st = "prompt"]_vars

C15_PipeSplitting ==
    (scanOut.done /\ scanOut.needPipe = 1)
        => LET n  == Len(scanArgs) - 1
               i  == scanOut.i
               sp == scanOut.split
           IN  /\ 1 <= i /\ i <= n - 1
               /\ At(scanArgs, i) = BAR
               /\ sp.firstCommand = SubSeq(scanArgs, 1, i) \o <<NULL>>
               /\ sp.secondCommand = SubSeq(scanArgs, i + 2, n) \o <<NULL>>
               /\ Len(sp.firstCommand) + Len(sp.secondCommand) = n + 1
               /\ i = n - 1 => sp.secondCommand = <<NULL>>
               /\ sp.firstSize = i + 1
               /\ sp.secondSize = n - i
               /\ sp.firstWrites = 0 .. sp.firstSize - 1
               /\ sp.secondWrites = 0 .. sp.secondSize - 1

\* `a a |`: the pipe is the last token, and Second-Command is NULL alone.
C15_Witness ==
    /\ scanOut.done
    /\ scanArgs = <<A, A, BAR, NULL>>
    /\ scanOut.needPipe = 1
    /\ scanOut.i = 2
    /\ scanOut.split.firstCommand = <<A, A, NULL>>
    /\ scanOut.split.secondCommand = <<NULL>>
    /\ scanOut.split.secondWrites = {0}

\* Process p has, besides descriptors 0 and 1, a descriptor open on an end
\* of the pipe that process c created.
HoldsExtra(p, c) == \E f \in proc[p].fds : f.obj = "pipe" /\ f.id = c

\* C16: Pipe endpoints are closed where not needed: in the step in which
\* a stage of a pipe line starts its program, the process is left with no
\* descriptor of the pipe but its standard output (first stage) or its
\* standard input (second stage); when the second stage starts, no process
\* has the write end of the pipe open; and while a program reads a pipe on
\* its standard input no process has the write end open, so that it is at
\* end-of-file once the buffered bytes are read.
C16_PipeEndsClosed ==
    /\ [][\A p \in Pids :
            (proc[p].st \in {"gchild", "pwait"} /\ proc'[p].st = "running")
                => LET c == proc[p].fd1
                   IN  /\ ~HoldsExtra(p, c)'
                       /\ proc[p].st = "gchild"
                             => /\ proc'[p].out1 = PipeEnd(c, WRITE)
                                /\ proc'[p].in0.obj # "pipe"
                       /\ proc[p].st = "pwait"
                             => /\ proc'[p].in0 = PipeEnd(c, READ)
                                /\ proc'[p].out1.obj # "pipe"
                                /\ Holders(PipeEnd(c, WRITE))' = {}]_vars
    /\ [](\A p \in Pids :
            (Running(p) /\ proc[p].in0.obj = "pipe")
                => Holders(PipeEnd(proc[p].in0.id, WRITE)) = {})

\* `a | b`: `b` is running with the pipe as its standard input, a byte
\* that `a` wrote is buffered in it, and `a` has ended.
C16_Witness ==
    /\ proc[1].st = "running"
    /\ proc[1].prog = <<B>>
    /\ proc[1].in0 = PipeEnd(1, READ)
    /\ proc[1].fds = {}
    /\ pipeBuf[1] = 1
    /\ proc[2].st = "reaped"

\* What the descriptors of process p refer to.
Descriptors(p) == proc[p].fds \cup {proc[p].in0, proc[p].out1}

\* C17: Redirect descriptors are closed after use: a program started
\* with its input or output redirected refers to the file through
\* descriptor 0 or 1 only, the descriptor that open returned being closed;
\* and the main shell has no descriptor open on such a file.
C17_RedirectDescriptorClosed ==
    /\ \A p \in Pids :
          Running(p) => \A f \in proc[p].fds : f.obj # "file"
    /\ \A f \in Descriptors(0) : f.obj # "file"

\* C18: Single read loop: no process but the original shell is ever at
\* the prompt or in the wait of the read loop, and every line consumed
\* from standard input was read by the original shell.
C18_SingleReadLoop ==
    /\ \A p \in Pids \ {0} : proc[p].st \notin {"prompt", "wait"}
    /\ \A k \in 1 .. Len(stdin) : stdin[k].by = 0

\* The program of process g is in a write that cannot return: the pipe its
\* standard output refers to is full.
BlockedWriting(g) ==
    /\ proc[g].st = "writing"
    /\ pipeBuf[proc[g].out1.id] = PipeCap

\* C19: Pipeline completion: no state is reachable in which the grandchild
\* is blocked writing to the pipe while the pipe-owning child is blocked
\* waiting for it to end.
C19_NoPipeDeadlock ==
    \A c \in Pids :
        proc[c].st = "pwait" => ~BlockedWriting(proc[c].childPid)

\* C20: Argument-vector bounds: for a command line of at most
\* MAX_LINE - 1 characters the number of tokens is at most MAX_LINE / 2,
\* and every index at which args is read or written by the tokenization,
\* the scan for an operator and the child is in 0 .. MAX_LINE / 2, inside
\* the argSize entries of the array; the number of tokens is the number
\* of those strtok returns, on the lines short enough to be kept.
C20_ArgsIndicesInBounds ==
    /\ tok.len <= MAX_LINE - 1
    /\ tok.numArgs <= MAX_LINE \div 2
    /\ 2 * tok.numArgs <= tok.len + 1
    /\ \A k \in tok.used : 0 <= k /\ k <= MAX_LINE \div 2 /\ k < argSize
    /\ tok.len <= MaxLineLen
          => /\ Len(tok.line) = tok.len
             /\ tok.numArgs = Len(Strtok(tok.line, 1))

\* A line of MAX_LINE - 1 characters with MAX_LINE / 2 tokens has been
\* tokenized: args[MAX_LINE / 2], the last entry, holds the NULL.
C20_Witness ==
    /\ tok.ended
    /\ tok.len = MAX_LINE - 1
    /\ tok.numArgs = MAX_LINE \div 2
    /\ (MAX_LINE \div 2) \in tok.used
    /\ argSize - 1 \in tok.used

====
